---- MODULE Spec2Model ----
(***************************************************************************)
(* Clump hierarchy of yt/analysis_modules/level_sets/clump_handling.py:    *)
(* the Clump node (find_children, add_info_item, _isValid, __reduce__),    *)
(* the recursive builder find_clumps, and the tree utilities.              *)
(*                                                                         *)
(* Clump objects live in the heap `clumps` (a sequence indexed by object   *)
(* identity); a reference is an index, 0 is Python's None.  The contour    *)
(* extractor, the validity expression and the sink's write are external:   *)
(* their results are inputs of the actions.                                *)
(***************************************************************************)
EXTENDS Integers, Sequences, FiniteSets, TLC

VARIABLES clumps,   \* heap of Clump objects
          evals,    \* evals[n]: how often eval(self.function) ran for object n
          stack,    \* activation records of find_clumps, innermost last
          call,     \* the outermost find_clumps call: arguments and status
          fh,       \* the sink of the writer call that ran last
          pickle,   \* a serialization in progress: the reduced tuples and the rebuilt objects
          last      \* the operation that ran last, with its arguments and result

vars == <<clumps, evals, stack, call, fh, pickle, last>>

(***************************************************************************)
(* Bounds of the model.                                                    *)
(***************************************************************************)
MaxCid == 2         \* contour ids are -1..MaxCid
MaxNodes == 5       \* objects on the heap
MaxObjects == 4     \* objects on the heap when the methods are called directly
MaxInfo == 1        \* info items added to one node beyond the default ones

NoRef == 0                      \* None as an object reference
NoValue == "None"               \* None as function_value
Cids == (-1)..MaxCid

(***************************************************************************)
(* children is None or a list: [none |-> TRUE] is None.                    *)
(***************************************************************************)
NoChildren == [none |-> TRUE, items |-> <<>>]
ChildList(s) == [none |-> FALSE, items |-> s]

Range(s) == {s[i] : i \in DOMAIN s}

(***************************************************************************)
(* clump_info_registry.find(name, *args): the callback bound to its        *)
(* arguments.                                                              *)
(***************************************************************************)
find(info_item, args) == [name |-> info_item, args |-> args]

RECURSIVE add_info_item(_, _, _, _)
add_info_item(h, self, info_item, args) ==
    LET callback == find(info_item, args)
        h1 == [h EXCEPT ![self].clump_info = Append(@, callback)]
        kids == h[self].children.items
        F[i \in 0..Len(kids)] ==
            IF i = 0 THEN h1 ELSE add_info_item(F[i-1], kids[i], info_item, <<>>)
    IN  IF h[self].children.none THEN h1 ELSE F[Len(kids)]

DefaultInfoNames == <<"total_cells", "cell_mass", "mass_weighted_jeans_mass",
                      "volume_weighted_jeans_mass", "max_grid_level",
                      "min_number_density", "max_number_density">>

set_default_clump_info == [i \in 1..Len(DefaultInfoNames) |-> find(DefaultInfoNames[i], <<>>)]

default_function == "self.data.quantities[\"IsBound\"](truncate=True,include_thermal_energy=True) > 1.0"

(***************************************************************************)
(* Clump.__init__: data is the region, summarised by the chain of contour  *)
(* cuts that derived it and the extrema of the field over it.  clump_info  *)
(* is the list handed in (copied by value); the caller without one passes  *)
(* set_default_clump_info.                                                 *)
(***************************************************************************)
Clump(data, parent, field, function, clump_info) ==
    [parent |-> parent, data |-> data, field |-> field,
     min_val |-> data.min, max_val |-> data.max,
     clump_info |-> clump_info,
     function |-> IF function = NoValue THEN default_function ELSE function,
     function_value |-> NoValue,
     children |-> NoChildren]

(***************************************************************************)
(* sorted(unique_contours)                                                 *)
(***************************************************************************)
RECURSIVE sorted(_)
sorted_descending(S) ==
    IF S = {} THEN <<>>
    ELSE LET m == CHOOSE x \in S : \A y \in S : x >= y
         IN  <<m>> \o sorted(S \ {m})

sorted(S) ==
    IF S = {} THEN <<>>
    ELSE LET m == CHOOSE x \in S : \A y \in S : x <= y
         IN  <<m>> \o sorted(S \ {m})

(***************************************************************************)
(* The two `continue` tests of find_children's loop: a contour id gets a   *)
(* child unless it is -1 or its cut region has no point.  cids[cid] is the *)
(* cut region of contour cid.                                              *)
(***************************************************************************)
keeps_contour_with_sentinel(cids, cid) == cids[cid].ones # 0

keeps_contour(cids, cid) == cid # -1 /\ cids[cid].ones # 0

cut_region(data, cids, cid) ==
    [path |-> Append(data.path, cid), ones |-> cids[cid].ones,
     min |-> cids[cid].min, max |-> cids[cid].max]

(***************************************************************************)
(* Clump.find_children, given the extractor's answer cids.                 *)
(***************************************************************************)
find_children_keep_old(h, self, cids) ==
    LET kept == SelectSeq(sorted(DOMAIN cids), LAMBDA cid : keeps_contour(cids, cid))
        old == h[self].children.items
        new == [i \in 1..Len(kept) |->
                   Clump(cut_region(h[self].data, cids, kept[i]), self, h[self].field,
                         h[self].function, h[self].clump_info)]
    IN  [h EXCEPT ![self].children = ChildList(old \o [i \in 1..Len(kept) |-> Len(h) + i])] \o new

find_children(h, self, cids) ==
    LET kept == SelectSeq(sorted(DOMAIN cids), LAMBDA cid : keeps_contour(cids, cid))
        new == [i \in 1..Len(kept) |->
                   Clump(cut_region(h[self].data, cids, kept[i]), self, h[self].field,
                         h[self].function, h[self].clump_info)]
    IN  [h EXCEPT ![self].children = ChildList([i \in 1..Len(kept) |-> Len(h) + i])] \o new

(***************************************************************************)
(* Clump._isValid; ev is what eval(self.function) yields if it runs.       *)
(* needs_eval is the test that guards the evaluation.                      *)
(***************************************************************************)
needs_eval_always(h, self) == TRUE

needs_eval(h, self) == h[self].function_value = NoValue

isValid_heap(h, self, ev) ==
    IF needs_eval(h, self) THEN [h EXCEPT ![self].function_value = ev] ELSE h

isValid_evals(h, e, self) ==
    IF needs_eval(h, self) THEN [e EXCEPT ![self] = @ + 1] ELSE e

isValid_result(h, self, ev) == isValid_heap(h, self, ev)[self].function_value

(***************************************************************************)
(* Inputs.                                                                 *)
(***************************************************************************)
Thresholds == {1, 2, 4}         \* min_val of the outermost find_clumps call
Ceilings == {4}                 \* its max_val
Steps == {2}                    \* its d_clump

RootData == [path |-> <<>>, ones |-> 1, min |-> 1, max |-> 4]

\* What the region decides about identify_contours' answer: the contour ids
\* present and the point count of each one's cut region.
Contours == UNION {[S -> 0..1] : S \in SUBSET Cids}

\* identify_contours(self.data, self.field, min_val, max_val) with the cut
\* regions: the contours lie above the threshold and inside the node's region.
identify_contours(h, self, min_val, ones) ==
    [cid \in DOMAIN ones |->
        [ones |-> ones[cid],
         min |-> IF min_val > h[self].min_val THEN min_val ELSE h[self].min_val,
         max |-> h[self].max_val]]

Root == 1

NoSink == [state |-> "none"]
NoPickle == [active |-> FALSE]

Init ==
    /\ clumps = <<Clump(RootData, NoRef, "density", NoValue, set_default_clump_info)>>
    /\ evals = <<0>>
    /\ stack = <<>>
    /\ call = [status |-> "idle", min_val |-> 0, max_val |-> 0, d_clump |-> 0]
    /\ fh = NoSink
    /\ pickle = NoPickle
    /\ last = [op |-> "init"]

(***************************************************************************)
(* find_clumps.  An activation is [clump, min_val, pc, i, these_children]; *)
(* pc is "enter" before line 170, "single" while the call of line 174 is   *)
(* out, "loop" while the call of line 180 for child number i is out.  The  *)
(* activation on top of the stack is the one that runs.                    *)
(***************************************************************************)
Frame(clump, min_val) ==
    [clump |-> clump, min_val |-> min_val, pc |-> "enter", i |-> 0, these_children |-> <<>>]

\* the interpreter's limit on nested activations (sys.getrecursionlimit()),
\* scaled down: the call that would exceed it raises RuntimeError
RecursionLimit == 4

Top == stack[Len(stack)]
Pop == SubSeq(stack, 1, Len(stack) - 1)
Returned(st) == IF st = <<>> THEN [call EXCEPT !.status = "returned"] ELSE call

\* the outermost call
FindClumpsCall(min_val, max_val, d_clump) ==
    /\ call.status = "idle"
    /\ fh = NoSink /\ ~pickle.active
    /\ call' = [status |-> "running", min_val |-> min_val, max_val |-> max_val, d_clump |-> d_clump]
    /\ stack' = <<Frame(Root, min_val)>>
    /\ last' = [op |-> "find_clumps"]
    /\ UNCHANGED <<clumps, evals, fh, pickle>>

\* line 170: if min_val >= max_val: return
FindClumpsBase ==
    /\ stack # <<>> /\ Top.pc = "enter"
    /\ Top.min_val >= call.max_val
    /\ stack' = Pop
    /\ call' = Returned(Pop)
    /\ last' = [op |-> "base", clump |-> Top.clump]
    /\ UNCHANGED <<clumps, evals, fh, pickle>>

\* lines 171-180: find_children, then the branch on the number of children
FindClumpsSplit(ones) ==
    /\ stack # <<>> /\ Top.pc = "enter"
    /\ ~(Top.min_val >= call.max_val)
    /\ LET cids == identify_contours(clumps, Top.clump, Top.min_val, ones)
           h == find_children(clumps, Top.clump, cids)
           kids == h[Top.clump].children.items
           next_min == Top.min_val * call.d_clump
       IN  /\ Len(h) <= MaxNodes
           /\ Len(kids) > 0 => Len(stack) < RecursionLimit
           /\ clumps' = h
           /\ evals' = evals \o [i \in 1..(Len(h) - Len(clumps)) |-> 0]
           /\ IF Len(kids) = 1
              THEN /\ stack' = Pop \o <<[Top EXCEPT !.pc = "single"], Frame(Top.clump, next_min)>>
                   /\ call' = call
              ELSE IF Len(kids) > 0
              THEN /\ stack' = Pop \o <<[Top EXCEPT !.pc = "loop", !.i = 1], Frame(kids[1], next_min)>>
                   /\ call' = call
              ELSE /\ stack' = Pop
                   /\ call' = Returned(Pop)
           /\ last' = [op |-> "split", clump |-> Top.clump]
    /\ UNCHANGED <<fh, pickle>>

\* line 174 returned: nothing follows it
FindClumpsAfterSingle ==
    /\ stack # <<>> /\ Top.pc = "single"
    /\ stack' = Pop
    /\ call' = Returned(Pop)
    /\ last' = [op |-> "single", clump |-> Top.clump]
    /\ UNCHANGED <<clumps, evals, fh, pickle>>

\* lines 181-186: the test applied to a child after its recursion
has_children(h, child) == ~h[child].children.none /\ Len(h[child].children.items) > 0

survives(h, child, ev) ==
    IF has_children(h, child) THEN TRUE ELSE isValid_result(h, child, ev) = "True"

\* lines 187-195: the children the node is left with
collapse_keep_single(h, these_children) ==
    IF Len(these_children) >= 1 THEN ChildList(these_children)
    ELSE ChildList(<<>>)

collapse(h, these_children) ==
    IF Len(these_children) > 1 THEN ChildList(these_children)
    ELSE IF Len(these_children) = 1 THEN h[these_children[1]].children
    ELSE ChildList(<<>>)

\* line 180 returned for child number i: lines 181-186, then the next child
\* or lines 187-195
FindClumpsAfterChild(ev) ==
    /\ stack # <<>> /\ Top.pc = "loop"
    /\ LET kids == clumps[Top.clump].children.items
           child == kids[Top.i]
           evaluated == ~has_children(clumps, child)
           h == IF evaluated THEN isValid_heap(clumps, child, ev) ELSE clumps
           these_children == IF survives(clumps, child, ev)
                             THEN Append(Top.these_children, child)
                             ELSE Top.these_children
       IN  /\ evals' = IF evaluated THEN isValid_evals(clumps, evals, child) ELSE evals
           /\ IF Top.i < Len(kids)
              THEN /\ clumps' = h
                   /\ stack' = Pop \o <<[Top EXCEPT !.i = @ + 1, !.these_children = these_children],
                                        Frame(kids[Top.i + 1], Top.min_val * call.d_clump)>>
                   /\ call' = call
                   /\ last' = [op |-> "child", clump |-> Top.clump]
              ELSE /\ clumps' = [h EXCEPT ![Top.clump].children = collapse(h, these_children)]
                   /\ stack' = Pop
                   /\ call' = Returned(Pop)
                   /\ last' = [op |-> "collapse", clump |-> Top.clump, kids |-> kids,
                               these_children |-> these_children]
    /\ UNCHANGED <<fh, pickle>>

Evals == {"True", "False"}

Next ==
    \/ \E min_val \in Thresholds, max_val \in Ceilings, d_clump \in Steps :
          FindClumpsCall(min_val, max_val, d_clump)
    \/ FindClumpsBase
    \/ \E ones \in Contours : FindClumpsSplit(ones)
    \/ FindClumpsAfterSingle
    \/ \E ev \in Evals : FindClumpsAfterChild(ev)

Spec == Init /\ [][Next]_vars

(***************************************************************************)
(* find_clumps on thresholds and steps of any kind: min_val zero or        *)
(* negative, d_clump 1.  Nothing in lines 168-195 tests d_clump or the     *)
(* sign of min_val.                                                        *)
(***************************************************************************)
AnyThresholds == {-1, 0, 1, 4}
AnySteps == {1, 2}

\* lines 174 and 180 at the recursion limit: find_children has run, the
\* nested call raises RuntimeError (maximum recursion depth exceeded), which
\* no activation catches
FindClumpsOverflow(ones) ==
    /\ stack # <<>> /\ Top.pc = "enter"
    /\ ~(Top.min_val >= call.max_val)
    /\ LET cids == identify_contours(clumps, Top.clump, Top.min_val, ones)
           h == find_children(clumps, Top.clump, cids)
           kids == h[Top.clump].children.items
       IN  /\ Len(h) <= MaxNodes
           /\ Len(kids) > 0 /\ Len(stack) >= RecursionLimit
           /\ clumps' = h
           /\ evals' = evals \o [i \in 1..(Len(h) - Len(clumps)) |-> 0]
    /\ stack' = <<>>
    /\ call' = [call EXCEPT !.status = "RuntimeError"]
    /\ last' = [op |-> "overflow", clump |-> Top.clump]
    /\ UNCHANGED <<fh, pickle>>

NextAny ==
    \/ \E min_val \in AnyThresholds, max_val \in Ceilings, d_clump \in AnySteps :
          FindClumpsCall(min_val, max_val, d_clump)
    \/ FindClumpsBase
    \/ \E ones \in Contours : FindClumpsSplit(ones)
    \/ \E ones \in Contours : FindClumpsOverflow(ones)
    \/ FindClumpsAfterSingle
    \/ \E ev \in Evals : FindClumpsAfterChild(ev)

SpecAny == Init /\ [][NextAny]_vars

(***************************************************************************)
(* Direct calls of the Clump methods, on the objects of the root's tree.   *)
(***************************************************************************)
RECURSIVE Subtree(_, _)
Subtree(h, n) ==
    {n} \cup UNION {Subtree(h, h[n].children.items[i]) : i \in DOMAIN h[n].children.items}

Fields == <<"density", "temperature">>
Functions == <<NoValue, "self.data[\"ones\"].size > 1">>
InfoItems == {"distance_to_main_clump"}
InfoArgs == {<<>>, <<"main_clump">>}

\* the direct calls' answers of the extractor and thresholds
\* (the unlabelled points, when there are any, are points)
DirectContours ==
    {f \in UNION {[S -> 0..1] : S \in SUBSET {-1, 0, 1}} : -1 \in DOMAIN f => f[-1] = 1}
PlainContours == {f \in DirectContours : \A cid \in DOMAIN f : cid # -1 /\ f[cid] = 1}
OneContour == {f \in PlainContours : DOMAIN f \subseteq {0}}
DirectThresholds == {2}

InitNode ==
    /\ \E i \in 1..2 :
          clumps = <<Clump(RootData, NoRef, Fields[i], Functions[i], set_default_clump_info)>>
    /\ evals = <<0>>
    /\ stack = <<>>
    /\ call = [status |-> "idle", min_val |-> 0, max_val |-> 0, d_clump |-> 0]
    /\ fh = NoSink
    /\ pickle = NoPickle
    /\ last = [op |-> "init"]

\* An object no list and no variable refers to any more is freed: what is left
\* of it in the heap is its identity.
Freed == [freed |-> TRUE]
Release(h) == [n \in DOMAIN h |-> IF n \in Subtree(h, Root) THEN h[n] ELSE Freed]
ReleaseEvals(h, e) == [n \in DOMAIN e |-> IF n \in Subtree(h, Root) THEN e[n] ELSE 0]

\* the contour a child was cut from
Contour(h, n) == h[n].data.path[Len(h[n].data.path)]

Idle == stack = <<>> /\ call.status = "idle" /\ fh = NoSink /\ ~pickle.active

\* self.find_children(min_val)
CallFindChildren(self, min_val, ones) ==
    /\ Idle
    /\ self \in Subtree(clumps, Root)
    /\ LET cids == identify_contours(clumps, self, min_val, ones)
           h == find_children(clumps, self, cids)
       IN  /\ Len(h) <= MaxObjects
           /\ clumps' = Release(h)
           /\ evals' = ReleaseEvals(h, evals \o [i \in 1..(Len(h) - Len(clumps)) |-> 0])
    /\ last' = [op |-> "find_children", clump |-> self, min_val |-> min_val, ones |-> ones,
                before |-> clumps[self].children.items,
                before_cids |-> [i \in DOMAIN clumps[self].children.items |->
                                    Contour(clumps, clumps[self].children.items[i])],
                again |-> /\ last.op = "find_children"
                          /\ last.clump = self /\ last.min_val = min_val /\ last.ones = ones]
    /\ UNCHANGED <<stack, call, fh, pickle>>

\* self._isValid()
CallIsValid(self, ev) ==
    /\ Idle
    /\ self \in Subtree(clumps, Root)
    /\ clumps' = isValid_heap(clumps, self, ev)
    /\ evals' = isValid_evals(clumps, evals, self)
    /\ last' = [op |-> "_isValid", clump |-> self, ev |-> ev,
                before |-> clumps[self].function_value, evals_before |-> evals[self],
                result |-> isValid_result(clumps, self, ev)]
    /\ UNCHANGED <<stack, call, fh, pickle>>

\* self.add_info_item(info_item, *args)
CallAddInfoItem(self, info_item, args) ==
    /\ Idle
    /\ self \in Subtree(clumps, Root)
    /\ \A n \in Subtree(clumps, self) :
          Len(clumps[n].clump_info) < Len(DefaultInfoNames) + MaxInfo
    /\ clumps' = add_info_item(clumps, self, info_item, args)
    /\ last' = [op |-> "add_info_item", clump |-> self, info_item |-> info_item, args |-> args]
    /\ UNCHANGED <<evals, stack, call, fh, pickle>>

DoFindChildren(Answers) ==
    \E self \in 1..Len(clumps), min_val \in DirectThresholds, ones \in Answers :
        CallFindChildren(self, min_val, ones)

DoIsValid == \E self \in 1..Len(clumps), ev \in Evals : CallIsValid(self, ev)

DoAddInfoItem ==
    \E self \in 1..Len(clumps), info_item \in InfoItems, args \in InfoArgs :
        CallAddInfoItem(self, info_item, args)

NextFind == DoFindChildren(DirectContours)
NextValid == DoFindChildren(OneContour) \/ DoIsValid
NextInfo == DoFindChildren(PlainContours) \/ DoAddInfoItem

SpecFind == InitNode /\ [][NextFind]_vars
SpecValid == InitNode /\ [][NextValid]_vars
SpecInfo == InitNode /\ [][NextInfo]_vars

(***************************************************************************)
(* The tree utilities, called on the root when find_clumps is not running. *)
(***************************************************************************)
\* get_lowest_clumps(clump, clump_list): the list after the call
RECURSIVE get_lowest_clumps(_, _, _)
get_lowest_clumps_computed_only(h, clump, clump_list) ==
    LET kids == h[clump].children.items
        list1 == IF ~h[clump].children.none /\ Len(kids) = 0
                 THEN Append(clump_list, clump) ELSE clump_list
        F[i \in 0..Len(kids)] ==
            IF i = 0 THEN list1 ELSE get_lowest_clumps(h, kids[i], F[i-1])
    IN  IF ~h[clump].children.none /\ Len(kids) > 0 THEN F[Len(kids)] ELSE list1

get_lowest_clumps(h, clump, clump_list) ==
    LET kids == h[clump].children.items
        list1 == IF h[clump].children.none \/ Len(kids) = 0
                 THEN Append(clump_list, clump) ELSE clump_list
        F[i \in 0..Len(kids)] ==
            IF i = 0 THEN list1 ELSE get_lowest_clumps(h, kids[i], F[i-1])
    IN  IF ~h[clump].children.none /\ Len(kids) > 0 THEN F[Len(kids)] ELSE list1

\* What a writer does to its sink, in order, when nothing raises.  is_file is
\* isinstance(fh, file).
Tabs(level) == [q \in 1..level |-> [e |-> "write", text |-> "\t"]]

RECURSIVE write_clump_index(_, _, _, _)
write_clump_index(h, clump, level, is_file) ==
    LET top == ~is_file
        kids == h[clump].children.items
        F[i \in 0..Len(kids)] ==
            IF i = 0 THEN <<>> ELSE F[i-1] \o write_clump_index(h, kids[i], level + 1, TRUE)
    IN  (IF top THEN <<[e |-> "open"]>> ELSE <<>>)
        \o Tabs(level)
        \o <<[e |-> "write", text |-> "Clump at level", level |-> level, clump |-> clump],
              [e |-> "write_info", level |-> level, clump |-> clump],
              [e |-> "write", text |-> "\n"],
              [e |-> "flush"]>>
        \o (IF ~h[clump].children.none /\ Len(kids) > 0 THEN F[Len(kids)] ELSE <<>>)
        \o (IF top THEN <<[e |-> "close"]>> ELSE <<>>)

RECURSIVE write_clumps(_, _, _, _)
write_clumps_every_node(h, clump, level, is_file) ==
    LET top == ~is_file
        kids == h[clump].children.items
        F[i \in 0..Len(kids)] ==
            IF i = 0 THEN <<>> ELSE F[i-1] \o write_clumps(h, kids[i], 0, TRUE)
    IN  (IF top THEN <<[e |-> "open"]>> ELSE <<>>)
        \o <<[e |-> "write", text |-> "Clump:", level |-> level, clump |-> clump],
              [e |-> "write_info", level |-> level, clump |-> clump],
              [e |-> "write", text |-> "\n"],
              [e |-> "flush"]>>
        \o (IF ~h[clump].children.none /\ Len(kids) > 0 THEN F[Len(kids)] ELSE <<>>)
        \o (IF top THEN <<[e |-> "close"]>> ELSE <<>>)

write_clumps(h, clump, level, is_file) ==
    LET top == ~is_file
        kids == h[clump].children.items
        F[i \in 0..Len(kids)] ==
            IF i = 0 THEN <<>> ELSE F[i-1] \o write_clumps(h, kids[i], 0, TRUE)
    IN  (IF top THEN <<[e |-> "open"]>> ELSE <<>>)
        \o (IF h[clump].children.none \/ Len(kids) = 0
            THEN <<[e |-> "write", text |-> "Clump:", level |-> level, clump |-> clump],
                   [e |-> "write_info", level |-> level, clump |-> clump],
                   [e |-> "write", text |-> "\n"],
                   [e |-> "flush"]>>
            ELSE <<>>)
        \o (IF ~h[clump].children.none /\ Len(kids) > 0 THEN F[Len(kids)] ELSE <<>>)
        \o (IF top THEN <<[e |-> "close"]>> ELSE <<>>)

\* write_info of the clump `bad` raises (an info item that fails on it); no
\* handler catches it, so what comes after it does not run.
Raises(ev, bad) == ev.e = "write_info" /\ ev.clump = bad

Executed(events, bad) ==
    LET stops == {i \in DOMAIN events : Raises(events[i], bad)}
    IN  IF stops = {} THEN events
        ELSE SubSeq(events, 1, (CHOOSE i \in stops : \A j \in stops : i <= j) - 1)

\* the sink after the writer ran the events
Sink(events, bad, is_file) ==
    LET done == Executed(events, bad)
        closes == Len(SelectSeq(done, LAMBDA ev : ev.e = "close"))
    IN  [state |-> IF closes > 0 THEN "closed" ELSE "open",
         opened_by |-> IF is_file THEN "caller" ELSE "writer",
         closes |-> closes,
         out |-> SelectSeq(done, LAMBDA ev : ev.e \in {"write", "write_info"}),
         raised |-> Len(done) < Len(events)]

UtilityOps == {"get_lowest_clumps", "write_clump_index", "write_clumps", "round_trip"}

Quiet ==
    /\ stack = <<>> /\ call.status \in {"idle", "returned"}
    /\ fh = NoSink /\ ~pickle.active
    /\ last.op \notin UtilityOps

CallGetLowestClumps ==
    /\ Quiet
    /\ last' = [op |-> "get_lowest_clumps", clump |-> Root, outcome |-> "returned",
                result |-> get_lowest_clumps(clumps, Root, <<>>)]
    /\ UNCHANGED <<clumps, evals, stack, call, fh, pickle>>

CallWriteClumpIndex(is_file, bad) ==
    /\ Quiet
    /\ fh' = Sink(write_clump_index(clumps, Root, 0, is_file), bad, is_file)
    /\ last' = [op |-> "write_clump_index", clump |-> Root,
                outcome |-> IF fh'.raised THEN "raised" ELSE "returned"]
    /\ UNCHANGED <<clumps, evals, stack, call, pickle>>

CallWriteClumps(is_file, bad) ==
    /\ Quiet
    /\ fh' = Sink(write_clumps(clumps, Root, 0, is_file), bad, is_file)
    /\ last' = [op |-> "write_clumps", clump |-> Root,
                outcome |-> IF fh'.raised THEN "raised" ELSE "returned"]
    /\ UNCHANGED <<clumps, evals, stack, call, pickle>>

(***************************************************************************)
(* __reduce__ and _reconstruct_clump.                                      *)
(***************************************************************************)
\* the names the module can look up at line 152: iterable is neither
\* imported nor defined in it
ModuleNames == {"copy", "np", "clump_info_registry", "identify_contours", "Clump",
                "_reconstruct_clump", "find_clumps", "get_lowest_clumps",
                "write_clump_index", "write_clumps"}

\* iterable(parent), where the name is defined: true of the (pf, clump) tuple
iterable(parent) == parent.kind = "tuple"

\* parent[1] of the (pf, clump) tuple
Item1(parent) == parent.ref

reduce(h, self) ==
    [parent |-> h[self].parent, field |-> h[self].field, min_val |-> h[self].min_val,
     max_val |-> h[self].max_val, function_value |-> h[self].function_value,
     children |-> h[self].children, data |-> h[self].data,
     clump_info |-> h[self].clump_info, function |-> h[self].function]

\* for child in children: child.parent = obj
relink(h, children, obj) ==
    [n \in DOMAIN h |-> IF n \in Range(children) THEN [h[n] EXCEPT !.parent = obj] ELSE h[n]]

\* _reconstruct_clump; parent is None, a clump or a (pf, clump) tuple, data is
\* the (pf, region) tuple.  The result is the heap, the exception raised if
\* any, and the value returned.
reconstruct_clump(h, parent, field, mi, ma, function_value, children, data, clump_info, function) ==
    LET obj == Len(h) + 1
        parent1 == IF iterable(parent) THEN Item1(parent) ELSE parent.ref
        children1 == IF children.none THEN <<>> ELSE children.items
        new == [parent |-> parent1, data |-> data[2], field |-> field,
                min_val |-> mi, max_val |-> ma, clump_info |-> clump_info,
                function |-> function, function_value |-> function_value,
                children |-> ChildList(children1)]
    IN  IF "iterable" \notin ModuleNames
        THEN [h |-> h, raised |-> "NameError", ret |-> [pf |-> FALSE, obj |-> NoRef]]
        ELSE [h |-> relink(Append(h, new), children1, obj), raised |-> "",
              ret |-> [pf |-> parent1 = NoRef, obj |-> obj]]

\* the parent a child's tuple is rebuilt with, before the child's own parent
\* is: a copy of the original parent, in the form its reconstruction returns
PickledParent(h0, self) ==
    LET p == h0[self].parent
    IN  IF p = NoRef THEN [kind |-> "None", ref |-> NoRef]
        ELSE IF h0[p].parent = NoRef THEN [kind |-> "tuple", ref |-> p]
        ELSE [kind |-> "clump", ref |-> p]

\* rebuilding the tuples of the tree of self, children first
RECURSIVE loads(_, _, _)
loads(h0, h, self) ==
    LET args == reduce(h0, self)
        kids == args.children.items
        F[i \in 0..Len(kids)] ==
            IF i = 0 THEN [h |-> h, raised |-> "", rets |-> <<>>]
            ELSE IF F[i-1].raised # "" THEN F[i-1]
            ELSE LET r == loads(h0, F[i-1].h, kids[i])
                 IN  [h |-> r.h, raised |-> r.raised, rets |-> Append(F[i-1].rets, r.ret.obj)]
        below == F[Len(kids)]
    IN  IF below.raised # ""
        THEN [h |-> below.h, raised |-> below.raised, ret |-> [pf |-> FALSE, obj |-> NoRef]]
        ELSE reconstruct_clump(below.h, PickledParent(h0, self), args.field, args.min_val,
                               args.max_val, args.function_value,
                               [none |-> args.children.none, items |-> below.rets],
                               <<"pf", args.data>>, args.clump_info, args.function)

\* pickle.loads(pickle.dumps(root))
CallRoundTrip ==
    /\ Quiet
    /\ LET r == loads(clumps, clumps, Root)
       IN  /\ clumps' = r.h
           /\ evals' = evals \o [i \in 1..(Len(r.h) - Len(clumps)) |-> 0]
           /\ pickle' = [active |-> TRUE, raised |-> r.raised, ret |-> r.ret]
           /\ last' = [op |-> "round_trip", clump |-> Root,
                       outcome |-> IF r.raised # "" THEN r.raised ELSE "returned"]
    /\ UNCHANGED <<stack, call, fh>>

NextTree ==
    \/ Next
    \/ CallGetLowestClumps
    \/ \E is_file \in BOOLEAN, bad \in 0..Len(clumps) : CallWriteClumpIndex(is_file, bad)
    \/ \E is_file \in BOOLEAN, bad \in 0..Len(clumps) : CallWriteClumps(is_file, bad)
    \/ CallRoundTrip

SpecTree == Init /\ [][NextTree]_vars

(***************************************************************************)
(* Claims.                                                                 *)
(***************************************************************************)
NumChildren(n) == Len(clumps[n].children.items)

(***************************************************************************)
(* C1: after find_clumps returned, no node reachable from the root through *)
(* children has exactly one child.                                         *)
(***************************************************************************)
C1_NoSingleChild ==
    call.status = "returned" =>
        \A n \in Subtree(clumps, Root) : NumChildren(n) # 1

(***************************************************************************)
(* C2: after find_clumps returned, every childless node other than the     *)
(* root has had its validity evaluated, with result true.                  *)
(***************************************************************************)
C2_LeavesValid ==
    call.status = "returned" =>
        \A n \in Subtree(clumps, Root) \ {Root} :
            NumChildren(n) = 0 => clumps[n].function_value = "True" /\ evals[n] = 1

(***************************************************************************)
(* C10: when find_children yielded more than one child, a child survives   *)
(* exactly when after its recursion it has a non-empty children list, or   *)
(* is childless and _isValid returned true (not evaluated for a child with *)
(* children); the node is left with the survivors in their original order  *)
(* if more than one survives, with the single survivor's own children if   *)
(* exactly one does, and with the empty list if none does.                 *)
(***************************************************************************)
C10_Survivor(k) ==
    \/ ~clumps[k].children.none /\ clumps[k].children.items # <<>>
    \/ clumps[k].function_value = "True"

C10_SurvivalAndCollapse ==
    (last.op = "collapse" /\ Len(last.kids) > 1) =>
        LET survivors == SelectSeq(last.kids, C10_Survivor)
        IN  /\ \A i \in DOMAIN last.kids :
                   LET k == last.kids[i]
                   IN  IF ~clumps[k].children.none /\ clumps[k].children.items # <<>>
                       THEN evals[k] = 0 /\ clumps[k].function_value = NoValue
                       ELSE evals[k] = 1 /\ clumps[k].function_value \in {"True", "False"}
            /\ clumps[last.clump].children =
                   IF Len(survivors) > 1 THEN ChildList(survivors)
                   ELSE IF Len(survivors) = 1 THEN clumps[survivors[1]].children
                   ELSE ChildList(<<>>)

\* a collapse onto the children of the single survivor
C10_WitnessSingle ==
    /\ last.op = "collapse"
    /\ Len(last.these_children) = 1
    /\ NumChildren(last.these_children[1]) > 1
    /\ clumps[last.clump].children = clumps[last.these_children[1]].children

LastItem(n) == clumps[n].clump_info[Len(clumps[n].clump_info)]

(***************************************************************************)
(* C3: after add_info_item(name, *params) on a node, the last info item of *)
(* every descendant equals, by name and parameters, the last info item of  *)
(* the node it was called on.                                              *)
(***************************************************************************)
C3_SameItemOnDescendants ==
    last.op = "add_info_item" =>
        \A n \in Subtree(clumps, last.clump) : LastItem(n) = LastItem(last.clump)

(***************************************************************************)
(* C5: the validity expression of a node is evaluated at most once: the    *)
(* first _isValid call evaluates it and caches the result, every later     *)
(* call returns the cached value without evaluating, whatever the          *)
(* expression would yield by then and whatever the node's children are.    *)
(***************************************************************************)
C5_EvaluatedOnce ==
    /\ \A n \in Subtree(clumps, Root) :
          /\ evals[n] <= 1
          /\ evals[n] = 0 <=> clumps[n].function_value = NoValue
    /\ last.op = "_isValid" =>
          /\ last.result = clumps[last.clump].function_value
          /\ last.before = NoValue =>
                last.result = last.ev /\ evals[last.clump] = last.evals_before + 1
          /\ last.before # NoValue =>
                last.result = last.before /\ evals[last.clump] = last.evals_before

\* a cached False is returned for a node that has children by now and whose
\* expression would yield True
C5_Witness ==
    /\ last.op = "_isValid"
    /\ last.before = "False" /\ last.ev = "True" /\ last.result = "False"
    /\ NumChildren(last.clump) > 0

(***************************************************************************)
(* C6: find_children leaves the node with freshly built children only      *)
(* (children unset, no cached validity, none of the previous children),    *)
(* and a second call with the same arguments on the unchanged region       *)
(* yields the same sequence of contour ids and the same number of          *)
(* children.                                                               *)
(***************************************************************************)
C6_IdempotentDestructive ==
    last.op = "find_children" =>
        LET kids == clumps[last.clump].children.items
        IN  /\ ~clumps[last.clump].children.none
            /\ \A i \in DOMAIN kids :
                   /\ kids[i] \notin Range(last.before)
                   /\ clumps[kids[i]].children = NoChildren
                   /\ clumps[kids[i]].function_value = NoValue
            /\ last.again =>
                   /\ Len(kids) = Len(last.before)
                   /\ [i \in DOMAIN kids |-> Contour(clumps, kids[i])] = last.before_cids

\* the second of two equal calls, replacing a child by a new one
C6_Witness ==
    /\ last.op = "find_children"
    /\ last.again
    /\ Len(last.before) > 0
    /\ NumChildren(last.clump) = Len(last.before)

(***************************************************************************)
(* C9: after find_children the children correspond one to one, in strictly *)
(* ascending order of contour id, to the contour ids of the labelling that *)
(* are not -1 and whose cut region has a point; each child has the node as *)
(* parent and the node's field and validity expression.                    *)
(***************************************************************************)
C9_ChildrenMatchContours ==
    last.op = "find_children" =>
        LET kids == clumps[last.clump].children.items
            ids == [i \in DOMAIN kids |-> Contour(clumps, kids[i])]
        IN  /\ Range(ids) = {cid \in DOMAIN last.ones : cid # -1 /\ last.ones[cid] >= 1}
            /\ \A i, j \in DOMAIN ids : i < j => ids[i] < ids[j]
            /\ \A i \in DOMAIN kids :
                   /\ clumps[kids[i]].parent = last.clump
                   /\ clumps[kids[i]].field = clumps[last.clump].field
                   /\ clumps[kids[i]].function = clumps[last.clump].function
                   /\ clumps[kids[i]].data.ones >= 1

\* a labelling with unlabelled points, an empty cut region and a contour
C9_Witness ==
    /\ last.op = "find_children"
    /\ -1 \in DOMAIN last.ones
    /\ \E cid \in DOMAIN last.ones : cid # -1 /\ last.ones[cid] = 0
    /\ NumChildren(last.clump) = 1

(***************************************************************************)
(* C4: serializing a tree with __reduce__ and rebuilding it bottom-up with *)
(* _reconstruct_clump yields a tree in which every rebuilt child's parent  *)
(* is the rebuilt node that holds it, and field, min_val, max_val, cached  *)
(* validity, info items, validity expression and the order of the children *)
(* equal the original's at every node.                                     *)
(***************************************************************************)
RECURSIVE SameTree(_, _)
SameTree(a, b) ==
    /\ clumps[b].field = clumps[a].field
    /\ clumps[b].min_val = clumps[a].min_val
    /\ clumps[b].max_val = clumps[a].max_val
    /\ clumps[b].function_value = clumps[a].function_value
    /\ clumps[b].clump_info = clumps[a].clump_info
    /\ clumps[b].function = clumps[a].function
    /\ Len(clumps[b].children.items) = Len(clumps[a].children.items)
    /\ \A i \in DOMAIN clumps[a].children.items :
          /\ clumps[clumps[b].children.items[i]].parent = b
          /\ SameTree(clumps[a].children.items[i], clumps[b].children.items[i])

C4_RoundTrip ==
    last.op = "round_trip" =>
        /\ pickle.raised = ""
        /\ pickle.ret.obj # Root
        /\ SameTree(Root, pickle.ret.obj)

(***************************************************************************)
(* C7: write_clump_index and write_clumps close the sink on every exit     *)
(* path, also when write_info raises part-way, if and only if the writer   *)
(* opened it from a path; a sink passed in open is never closed by the     *)
(* writer, one opened at the top call is closed exactly once.              *)
(***************************************************************************)
C7_SinkClosedIffOpened ==
    last.op \in {"write_clump_index", "write_clumps"} =>
        /\ fh.opened_by = "writer" => fh.state = "closed" /\ fh.closes = 1
        /\ fh.opened_by = "caller" => fh.state = "open" /\ fh.closes = 0

(***************************************************************************)
(* C8 as stated: serializing, reconstructing, collecting the leaves of or  *)
(* writing a report for a node whose children is unset ends in an          *)
(* InvalidTreeStateError.                                                  *)
(***************************************************************************)
C8_UnsetRaises ==
    (last.op \in UtilityOps /\ clumps[last.clump].children.none) =>
        last.outcome = "InvalidTreeStateError"

(***************************************************************************)
(* C8 amended: no utility ends in an InvalidTreeStateError on a node whose *)
(* children is unset.  get_lowest_clumps and the writers take the unset    *)
(* state for no children: the node is collected as a leaf, write_clumps    *)
(* writes its "Clump:" block, write_clump_index writes its block, and the  *)
(* only error of a writer is the one write_info raised.  The rebuild ends  *)
(* in the NameError of line 152 before it looks at the children, so it     *)
(* leaves no rebuilt node, with an empty list or otherwise.                *)
(***************************************************************************)
Unset == {n \in Subtree(clumps, Root) : clumps[n].children.none}

Wrote(text, n) ==
    \E i \in DOMAIN fh.out :
        fh.out[i].e = "write" /\ fh.out[i].text = text /\ fh.out[i].clump = n

C8_UnsetIsChildless ==
    /\ last.op \in UtilityOps => last.outcome \in {"returned", "raised", "NameError"}
    /\ last.op = "get_lowest_clumps" =>
          /\ last.outcome = "returned"
          /\ \A n \in Unset : n \in Range(last.result)
    /\ last.op = "write_clumps" =>
          /\ last.outcome = "raised" <=> fh.raised
          /\ ~fh.raised => \A n \in Unset : Wrote("Clump:", n)
    /\ last.op = "write_clump_index" =>
          /\ last.outcome = "raised" <=> fh.raised
          /\ ~fh.raised => \A n \in Unset : Wrote("Clump at level", n)
    /\ last.op = "round_trip" =>
          /\ last.outcome = "NameError"
          /\ pickle.ret.obj = NoRef

\* the leaves of a tree whose root was never decomposed
C8_Witness ==
    /\ last.op = "get_lowest_clumps"
    /\ clumps[Root].children.none
    /\ last.result = <<Root>>

(***************************************************************************)
(* C11: in every state find_children and find_clumps reach, every node in  *)
(* the children list of a node n of the tree has n as its parent, also     *)
(* after the collapse onto a single survivor's children, and the root has  *)
(* no parent.                                                              *)
(***************************************************************************)
C11_ChildrenPointToParent ==
    /\ clumps[Root].parent = NoRef
    /\ \A n \in Subtree(clumps, Root) :
           \A i \in DOMAIN clumps[n].children.items :
               clumps[clumps[n].children.items[i]].parent = n

(***************************************************************************)
(* C13: after find_clumps(node, ...) with min_val < max_val returned, the  *)
(* children of node is a list, possibly empty, and not unset: for the root *)
(* once the whole call returned, and for every node whose children the     *)
(* survival filter has just assigned.                                      *)
(***************************************************************************)
C13_ChildrenSetAfterReturn ==
    /\ (call.status = "returned" /\ call.min_val < call.max_val) =>
           ~clumps[Root].children.none
    /\ last.op = "collapse" => ~clumps[last.clump].children.none

(***************************************************************************)
(* C14: get_lowest_clumps(node) returns the nodes of the subtree that have *)
(* no children (unset or empty), each exactly once and no node that has    *)
(* children, in the order a pre-order walk along the stored children lists *)
(* meets them; on a childless node it returns the list of that node alone. *)
(* write_clumps writes its "Clump:" blocks for exactly these nodes in the  *)
(* same order.                                                             *)
(***************************************************************************)
RECURSIVE C14_PreOrder(_)
C14_PreOrder(n) ==
    LET kids == clumps[n].children.items
        F[i \in 0..Len(kids)] == IF i = 0 THEN <<n>> ELSE F[i-1] \o C14_PreOrder(kids[i])
    IN  F[Len(kids)]

C14_Childless(n) == NumChildren(n) = 0

C14_Leaves == SelectSeq(C14_PreOrder(Root), C14_Childless)

C14_IsBlock(ev) == ev.e = "write" /\ ev.text = "Clump:"

C14_Blocks ==
    LET blocks == SelectSeq(fh.out, C14_IsBlock)
    IN  [i \in DOMAIN blocks |-> blocks[i].clump]

C14_LowestClumps ==
    /\ last.op = "get_lowest_clumps" =>
          /\ last.result = C14_Leaves
          /\ \A i, j \in DOMAIN last.result : last.result[i] = last.result[j] => i = j
          /\ Range(last.result) = {n \in Subtree(clumps, Root) : C14_Childless(n)}
          /\ C14_Childless(Root) => last.result = <<Root>>
    /\ (last.op = "write_clumps" /\ ~fh.raised) => C14_Blocks = C14_Leaves

\* a report of three leaves, two of them below an inner node
C14_Witness ==
    /\ last.op = "write_clumps" /\ ~fh.raised
    /\ Len(C14_Blocks) = 3
    /\ \E n \in Subtree(clumps, Root) \ {Root} : NumChildren(n) = 2

(***************************************************************************)
(* C12: when a precondition of find_clumps is violated, min_val >= max_val *)
(* or step_factor <= 1, the call returns at once as a base case: it does   *)
(* not run find_children or the extractor, ends in no error, and leaves    *)
(* the node's children (here unset), info items and cached validity as     *)
(* they were.                                                              *)
(***************************************************************************)
C12_ViolatedPreconditionReturns ==
    (call.status # "idle" /\ (call.min_val >= call.max_val \/ call.d_clump <= 1)) =>
        /\ call.status \in {"running", "returned"}
        /\ last.op \in {"find_clumps", "base"}
        /\ clumps = <<Clump(RootData, NoRef, "density", NoValue, set_default_clump_info)>>
        /\ evals = <<0>>

(***************************************************************************)
(* C15: for every step_factor > 1 and every min_val < max_val, of any      *)
(* sign, find_clumps terminates whatever the extractor answers: along      *)
(* every chain of nested calls, the single-child one on the same node      *)
(* included, the threshold rises towards max_val, and the call does not    *)
(* end by exhausting the recursion limit.                                  *)
(***************************************************************************)
C15_Terminates ==
    (call.d_clump > 1 /\ call.min_val < call.max_val) =>
        /\ call.status # "RuntimeError"
        /\ \A i \in 2..Len(stack) : stack[i].min_val > stack[i-1].min_val

====
